---- MODULE Spec2Model ----
(***************************************************************************)
(* snodeAlert: the telemetry callback of SondeAlert (src/snode_alert.py).  *)
(*                                                                         *)
(* Python dicts are functions whose DOMAIN is the set of keys present, so  *)
(* `k in d` is k \in DOMAIN d and d.get(k, v) is Get(d, k, v).             *)
(* Floating point values are kept exact: an altitude in feet is the        *)
(* integer alt_m * 328084 in units of 1/100000 ft, a distance in miles the *)
(* integer km * 621371 in units of 1/1000000 mile, and a climb rate the    *)
(* fraction alt_diff / time_diff.                                          *)
(***************************************************************************)
EXTENDS Integers, Sequences, FiniteSets, TLC

VARIABLES
    criteria,        \* self.config['criteria'], fixed at construction
    last_positions,  \* self.last_positions: serial -> last stored message
    alerted_sondes,  \* self.alerted_sondes: criterion name -> set of serials
    sent,            \* history: apprise.notify calls that returned, per pair
    last,            \* history: how the latest callback invocation ended
    crashed,         \* history: an exception left on_sonde_message
    pc,              \* per stream thread: where its invocation stands
    frame,           \* per stream thread: the locals of its invocation
    env,             \* os.environ: the SNODEALERT_* variables
    main,            \* where the main thread stands
    stream,          \* self.stream: "none", "open" or "closed"
    exit_status,     \* exit status of the process once main = "exited"
    interrupted,     \* history: a KeyboardInterrupt was delivered
    slept            \* history: time.sleep returned at least once

session == <<env, main, stream, exit_status, interrupted, slept>>

vars == <<criteria, last_positions, alerted_sondes, sent, last, crashed, pc, frame,
          env, main, stream, exit_status, interrupted, slept>>

\* Cap of the per-pair notification counter (keeps a faulty variant finite).
MaxSent == 2

(***************************************************************************)
(* Values                                                                  *)
(***************************************************************************)

\* A field value that float() rejects (a non-numeric string such as "n/a").
NotANumber == -99999

Serials == {"S1", "S2"}

\* self.user_location, (latitude, longitude)
user_location == <<40, -105>>

Get(d, k, default) == IF k \in DOMAIN d THEN d[k] ELSE default

\* Python truthiness of a field value: 0 is falsy, a non-empty string truthy.
Truthy(v) == v # 0

\* float(v) raises ValueError exactly on NotANumber.
FloatRaises(v) == v = NotANumber

Abs(x) == IF x < 0 THEN -x ELSE x

\* haversine(a, b, unit=KILOMETERS) on the grid of whole degrees used here:
\* a degree of latitude is 111 km, a degree of longitude at 40N is 85 km.
haversine(a, b) == 111 * Abs(a[1] - b[1]) + 85 * Abs(a[2] - b[2])

\* Any payload that is not a dict (a list, a string, None).
NonMapping == [nonmapping |-> TRUE]

IsDict(m) == "nonmapping" \notin DOMAIN m

(***************************************************************************)
(* The reports the stream may deliver                                      *)
(***************************************************************************)

WithAlt(m, alts) == {m} \cup {m @@ [alt |-> a] : a \in alts}
WithTime(m, times) == {m} \cup {m @@ [time |-> t] : t \in times}

\* Reports in which every field present is numeric.  Over the observer, S1
\* ranges over every combination of altitude and time, absent ones included;
\* one degree north (111 km away) it reports two altitudes; S2 stays over
\* the observer.
WellFormed ==
    UNION { WithTime(ma, {1000, 1010}) :
            ma \in WithAlt([serial |-> "S1", lat |-> 40, lon |-> -105], {0, 3000, 3300}) }
    \cup [serial : {"S1"}, lat : {41}, lon : {-105}, alt : {3000, 3300}, time : {1010}]
    \cup [serial : {"S2"}, lat : {40}, lon : {-105}, alt : {3000, 3300}, time : {1000, 1010}]

\* Reports lacking one of the required keys.
Incomplete ==
    { [lat |-> 40, lon |-> -105, alt |-> 3300, time |-> 1000],
      [serial |-> "S1", lon |-> -105, alt |-> 3300, time |-> 1000],
      [serial |-> "S1", lat |-> 40, alt |-> 3300, time |-> 1000],
      [serial |-> "S1"] }

\* Reports with one field float() rejects.
Malformed ==
    { [serial |-> "S1", lat |-> NotANumber, lon |-> -105, alt |-> 3300, time |-> 1010],
      [serial |-> "S1", lat |-> 40, lon |-> NotANumber, alt |-> 3300, time |-> 1010],
      [serial |-> "S1", lat |-> 40, lon |-> -105, alt |-> NotANumber, time |-> 1010],
      [serial |-> "S1", lat |-> 40, lon |-> -105, alt |-> 3000, time |-> NotANumber],
      [serial |-> "S2", lat |-> 40, lon |-> -105, alt |-> 3000, time |-> NotANumber] }

Messages == WellFormed \cup Incomplete \cup Malformed \cup {NonMapping}

(***************************************************************************)
(* Configurations                                                          *)
(***************************************************************************)

close == [name |-> "close", distance_miles |-> 50, altitude_feet_max |-> 20000]
climber == [name |-> "climber", climb_rate_min |-> 20]
high == [name |-> "high", altitude_feet_min |-> 10000]
off == [name |-> "off", enabled |-> FALSE]
nameless == [altitude_feet_min |-> 10000]

Configs == { <<close, climber>>, <<off, high>>, <<high, close>> }

\* The criterion `close` with any subset of the five bounds.
AllBounds ==
    [distance_miles |-> 50, altitude_feet_min |-> 10000, altitude_feet_max |-> 20000,
     climb_rate_min |-> 20, climb_rate_max |-> 20]

Bounded(keys) == [k \in keys \cup {"name"} |-> IF k = "name" THEN "close" ELSE AllBounds[k]]

TestCriteria == {Bounded(keys) : keys \in SUBSET DOMAIN AllBounds}

Names == {"close", "climber", "high", "off"}

NamesOf(cfg) == {cfg[i].name : i \in {j \in 1..Len(cfg) : "name" \in DOMAIN cfg[j]}}

\* The dispatcher's behaviour during one callback: the criterion whose
\* apprise.notify call raises, or "" when every call returns.
Dispatch(cfg) == NamesOf(cfg) \cup {""}

(***************************************************************************)
(* sonde_meets_criteria                                                    *)
(***************************************************************************)

\* climb_rate is None, or alt_diff / time_diff with time_diff > 0
None == [known |-> FALSE]
Rate(alt_diff, time_diff) == [known |-> TRUE, num |-> alt_diff, den |-> time_diff]

\* Faulty variant: an unknown climb rate fails a criterion with a climb bound.
sonde_meets_criteria_strict(c, distance_miles, altitude_feet, climb_rate) ==
    /\ ~("distance_miles" \in DOMAIN c /\ distance_miles > c.distance_miles * 1000000)
    /\ ~("altitude_feet_min" \in DOMAIN c /\ altitude_feet < c.altitude_feet_min * 100000)
    /\ ~("altitude_feet_max" \in DOMAIN c /\ altitude_feet > c.altitude_feet_max * 100000)
    /\ IF climb_rate.known
       THEN /\ ~("climb_rate_min" \in DOMAIN c
                 /\ climb_rate.num < c.climb_rate_min * climb_rate.den)
            /\ ~("climb_rate_max" \in DOMAIN c
                 /\ climb_rate.num > c.climb_rate_max * climb_rate.den)
       ELSE "climb_rate_min" \notin DOMAIN c /\ "climb_rate_max" \notin DOMAIN c

\* Faulty variant: the distance bound is exclusive (>= in place of >).
sonde_meets_criteria_exclusive(c, distance_miles, altitude_feet, climb_rate) ==
    IF "distance_miles" \in DOMAIN c /\ distance_miles >= c.distance_miles * 1000000
    THEN FALSE
    ELSE IF "altitude_feet_min" \in DOMAIN c /\ altitude_feet < c.altitude_feet_min * 100000
    THEN FALSE
    ELSE IF "altitude_feet_max" \in DOMAIN c /\ altitude_feet > c.altitude_feet_max * 100000
    THEN FALSE
    ELSE IF climb_rate.known
    THEN IF "climb_rate_min" \in DOMAIN c /\ climb_rate.num < c.climb_rate_min * climb_rate.den
         THEN FALSE
         ELSE IF "climb_rate_max" \in DOMAIN c /\ climb_rate.num > c.climb_rate_max * climb_rate.den
         THEN FALSE
         ELSE TRUE
    ELSE TRUE

sonde_meets_criteria(c, distance_miles, altitude_feet, climb_rate) ==
    IF "distance_miles" \in DOMAIN c /\ distance_miles > c.distance_miles * 1000000
    THEN FALSE
    ELSE IF "altitude_feet_min" \in DOMAIN c /\ altitude_feet < c.altitude_feet_min * 100000
    THEN FALSE
    ELSE IF "altitude_feet_max" \in DOMAIN c /\ altitude_feet > c.altitude_feet_max * 100000
    THEN FALSE
    ELSE IF climb_rate.known
    THEN IF "climb_rate_min" \in DOMAIN c /\ climb_rate.num < c.climb_rate_min * climb_rate.den
         THEN FALSE
         ELSE IF "climb_rate_max" \in DOMAIN c /\ climb_rate.num > c.climb_rate_max * climb_rate.den
         THEN FALSE
         ELSE TRUE
    ELSE TRUE

(***************************************************************************)
(* on_sonde_message                                                        *)
(***************************************************************************)

\* Faulty variant: the `enabled` flag is not consulted.
Enabled_Ignored(c) == TRUE

\* criteria.get('enabled', True)
Enabled(c) == Get(c, "enabled", TRUE)

\* self.alerted_sondes[criteria_name]: reading a defaultdict(set) creates
\* the entry, with the empty set, when the key is new.
AlertedRead(led, criteria_name) ==
    IF criteria_name \in DOMAIN led THEN led ELSE led @@ (criteria_name :> {})

\* Faulty variant: the ledger is not consulted before sending.
NotYetAlerted_Always(led, criteria_name, sonde_id) == TRUE

\* sonde_id not in self.alerted_sondes[criteria_name]
NotYetAlerted(led, criteria_name, sonde_id) ==
    sonde_id \notin AlertedRead(led, criteria_name)[criteria_name]

\* Faulty variant: the pair is not added to the ledger after the alert.
MarkSent_Forgotten(led, criteria_name, sonde_id) == AlertedRead(led, criteria_name)

\* self.alerted_sondes[criteria_name].add(sonde_id)
MarkSent(led, criteria_name, sonde_id) ==
    [AlertedRead(led, criteria_name) EXCEPT ![criteria_name] = @ \cup {sonde_id}]

\* send_alert builds the text and calls apprise.notify, whose result it
\* drops; the call either returns or raises.
send_alert(criteria_name, dispatch) ==
    IF dispatch = criteria_name THEN "Exception" ELSE ""

\* Faulty variant: the store keeps the latest report only.
Record_LatestOnly(lp, sonde_id, message) == (sonde_id :> message)

\* self.last_positions[sonde_id] = message
Record(lp, sonde_id, message) ==
    [s \in DOMAIN lp \cup {sonde_id} |-> IF s = sonde_id THEN message ELSE lp[s]]

\* Faulty variant: `except ValueError` in place of `except Exception`.
Catches_ValueErrorOnly(error) == error = "ValueError"

\* `except Exception` catches every error the body can raise.
Catches(error) == error \in {"ValueError", "KeyError", "TypeError", "Exception"}

\* The climb rate block: [error, rate], read from the stored report of the
\* same serial before it is overwritten.
ClimbRate(lp, message) ==
    LET sonde_id == message.serial IN
    IF sonde_id \notin DOMAIN lp
    THEN [error |-> "", rate |-> None]
    ELSE LET prev_alt == Get(lp[sonde_id], "alt", 0)
             prev_time == Get(lp[sonde_id], "time", 0)
         IN  IF ~("time" \in DOMAIN message /\ Truthy(prev_alt) /\ Truthy(prev_time))
             THEN [error |-> "", rate |-> None]
             ELSE IF FloatRaises(message.time) \/ FloatRaises(prev_time)
             THEN [error |-> "ValueError", rate |-> None]
             ELSE LET time_diff == message.time - prev_time IN
                  IF time_diff > 0
                  THEN IF FloatRaises(Get(message, "alt", 0)) \/ FloatRaises(prev_alt)
                       THEN [error |-> "ValueError", rate |-> None]
                       ELSE [error |-> "",
                             rate |-> Rate(Get(message, "alt", 0) - prev_alt, time_diff)]
                  ELSE [error |-> "", rate |-> None]

\* The loop over self.config['criteria'] from position i on: the ledger,
\* the notifications sent (criterion names, in order) and the error that
\* ended the loop, if any.
RECURSIVE CheckCriteria(_, _, _, _, _, _)
CheckCriteria(cfg, i, led, notes, ctx, dispatch) ==
    IF i > Len(cfg)
    THEN [alerted |-> led, notes |-> notes, error |-> ""]
    ELSE LET c == cfg[i] IN
         IF ~Enabled(c)
         THEN CheckCriteria(cfg, i + 1, led, notes, ctx, dispatch)
         ELSE IF "name" \notin DOMAIN c
         THEN [alerted |-> led, notes |-> notes, error |-> "KeyError"]
         ELSE IF ~sonde_meets_criteria(c, ctx.distance_miles, ctx.altitude_feet, ctx.climb_rate)
         THEN CheckCriteria(cfg, i + 1, led, notes, ctx, dispatch)
         ELSE IF ~NotYetAlerted(led, c.name, ctx.sonde_id)
         THEN CheckCriteria(cfg, i + 1, AlertedRead(led, c.name), notes, ctx, dispatch)
         ELSE IF send_alert(c.name, dispatch) # ""
         THEN [alerted |-> AlertedRead(led, c.name), notes |-> notes, error |-> "Exception"]
         ELSE CheckCriteria(cfg, i + 1, MarkSent(led, c.name, ctx.sonde_id),
                            Append(notes, c.name), ctx, dispatch)

Result(lp, led, notes, error) ==
    [last_positions |-> lp, alerted_sondes |-> led, notes |-> notes, error |-> error,
     outcome |-> IF error = "" THEN "completed"
                 ELSE IF Catches(error) THEN "caught" ELSE "propagated"]

\* Faulty variant: the report is stored before it is validated.
Discard_AfterStore(lp, led, message) ==
    [Result(IF "serial" \in DOMAIN message THEN Record(lp, message.serial, message) ELSE lp,
            led, << >>, "") EXCEPT !.outcome = "returned"]

\* The early `return` of the validation: nothing is touched.
Discard(lp, led, message) ==
    [Result(lp, led, << >>, "") EXCEPT !.outcome = "returned"]

\* What the callback derives from a report: sonde_id, distance_miles
\* (distance_km * 0.621371), sonde_alt_ft (sonde_alt_m * 3.28084), climb_rate.
Measurements(message, rate) ==
    [sonde_id |-> message.serial,
     distance_miles |-> haversine(user_location, <<message.lat, message.lon>>) * 621371,
     altitude_feet |-> Get(message, "alt", 0) * 328084,
     climb_rate |-> rate]

\* The statements after the climb rate block: store the report, then loop.
RecordAndCheck(lp, sonde_id, message, loop) ==
    Result(Record(lp, sonde_id, message), loop.alerted, loop.notes, loop.error)

\* From the climb rate block on.  An invocation that gets past the block
\* also reports the climb rate it used, as climb_rate.
Enrich(lp, led, cfg, message, dispatch, climb) ==
    IF climb.error # ""
    THEN Result(lp, led, <<>>, climb.error)
    ELSE [climb_rate |-> climb.rate] @@
         RecordAndCheck(lp, message.serial, message,
            CheckCriteria(cfg, 1, led, <<>>, Measurements(message, climb.rate), dispatch))

\* Faulty variant: the report is stored before the climb rate is derived, so
\* the derivation reads the report itself.
Process_StoreFirst(lp, led, cfg, message, dispatch) ==
    IF ~IsDict(message)
    THEN Discard(lp, led, message)
    ELSE IF "serial" \notin DOMAIN message \/ "lat" \notin DOMAIN message
            \/ "lon" \notin DOMAIN message
    THEN Discard(lp, led, message)
    ELSE IF FloatRaises(message.lat) \/ FloatRaises(message.lon)
            \/ FloatRaises(Get(message, "alt", 0))
    THEN Result(lp, led, <<>>, "ValueError")
    ELSE Enrich(lp, led, cfg, message, dispatch,
                ClimbRate(Record(lp, message.serial, message), message))

\* One invocation of the callback on state (lp, led) with configuration cfg.
Process(lp, led, cfg, message, dispatch) ==
    IF ~IsDict(message)
    THEN Discard(lp, led, message)
    ELSE IF "serial" \notin DOMAIN message \/ "lat" \notin DOMAIN message
            \/ "lon" \notin DOMAIN message
    THEN Discard(lp, led, message)
    ELSE IF FloatRaises(message.lat) \/ FloatRaises(message.lon)
            \/ FloatRaises(Get(message, "alt", 0))
    THEN Result(lp, led, <<>>, "ValueError")
    ELSE Enrich(lp, led, cfg, message, dispatch, ClimbRate(lp, message))

(***************************************************************************)
(* Configuration from the environment (apply_env_overrides, load_config).  *)
(* os.getenv yields Unset for a variable that is not set.  YAML documents  *)
(* and numerals are the texts below; YamlLoad, ParseFloat and ParseInt     *)
(* give what yaml.safe_load, float and int make of them.                   *)
(***************************************************************************)
Unset == "<unset>"

Given(v) == v \notin {Unset, ""}

ParseFloat(v) ==
    CASE v = "40" -> 40
      [] v = "-105" -> -105
      [] OTHER -> NotANumber

\* int(v): the value, or IntRaises for a text that is no integer.
IntRaises == NotANumber

ParseInt(v) ==
    CASE v = "300" -> 300
      [] v = "-1" -> -1
      [] OTHER -> IntRaises

\* The criteria lists that SNODEALERT_CRITERIA_YAML is given as a document
\* of, and the text of the document of a list.
Documents == Configs \cup {<<nameless>>} \cup {<<c>> : c \in TestCriteria}

CriteriaYaml(cfg) == ToString(cfg)

YamlLoad(v) ==
    CASE v = "{" -> [kind |-> "error"]
      [] v = "[]" -> [kind |-> "list", items |-> << >>]
      [] v = "['', ' ']" -> [kind |-> "list", items |-> <<"", " ">>]
      [] v = "[json://a, json://b]" -> [kind |-> "list", items |-> <<"json://a", "json://b">>]
      [] v = "name: close" -> [kind |-> "dict"]
      [] \E cfg \in Documents : v = CriteriaYaml(cfg) ->
            [kind |-> "list", items |-> CHOOSE cfg \in Documents : v = CriteriaYaml(cfg)]
      [] OTHER -> [kind |-> "str"]

Strip(u) == IF u = " " THEN "" ELSE u

\* v.replace('\n', ',').split(',')
SplitCommas(v) ==
    CASE v = "," -> <<"", "">>
      [] v = "json://a,json://b" -> <<"json://a", "json://b">>
      [] OTHER -> <<v>>

NonBlank(urls) == SelectSeq(urls, LAMBDA u : Strip(u) # "")

\* notifications['apprise_urls'] as lines 44-58 build it from the variable.
AppriseUrls(v) ==
    IF YamlLoad(v).kind = "list"
    THEN NonBlank(YamlLoad(v).items)
    ELSE NonBlank(SplitCommas(v))

LogLevels == {"DEBUG", "INFO", "WARNING", "ERROR", "CRITICAL"}

Exit1 == [exit |-> TRUE]

\* load_config with the check of the criteria list left out.
load_config_no_criteria_check(e) ==
    IF Given(e.latitude) /\ FloatRaises(ParseFloat(e.latitude)) THEN Exit1
    ELSE IF Given(e.longitude) /\ FloatRaises(ParseFloat(e.longitude)) THEN Exit1
    ELSE IF Given(e.check_interval) /\ ParseInt(e.check_interval) = IntRaises THEN Exit1
    ELSE IF Given(e.criteria) /\ YamlLoad(e.criteria).kind = "error" THEN Exit1
    ELSE IF ~Given(e.latitude) \/ ~Given(e.longitude) THEN Exit1
    ELSE IF ~Given(e.urls) \/ AppriseUrls(e.urls) = << >> THEN Exit1
    ELSE [exit |-> FALSE,
          criteria |-> IF Given(e.criteria) /\ YamlLoad(e.criteria).kind = "list"
                       THEN YamlLoad(e.criteria).items ELSE << >>,
          check_interval_seconds |->
              IF Given(e.check_interval) THEN ParseInt(e.check_interval) ELSE 300,
          log_level |-> IF Given(e.log_level) THEN e.log_level ELSE "INFO"]

\* load_config: the configuration, or Exit1 where it ends in sys.exit(1).
\* Every exception of apply_env_overrides and every failed check is caught
\* by `except Exception` and turned into the exit.
load_config(e) ==
    IF Given(e.latitude) /\ FloatRaises(ParseFloat(e.latitude)) THEN Exit1
    ELSE IF Given(e.longitude) /\ FloatRaises(ParseFloat(e.longitude)) THEN Exit1
    ELSE IF Given(e.check_interval) /\ ParseInt(e.check_interval) = IntRaises THEN Exit1
    ELSE IF Given(e.criteria) /\ YamlLoad(e.criteria).kind = "error" THEN Exit1
    ELSE IF ~Given(e.latitude) \/ ~Given(e.longitude) THEN Exit1
    ELSE IF ~Given(e.urls) \/ AppriseUrls(e.urls) = << >> THEN Exit1
    ELSE IF ~Given(e.criteria) \/ YamlLoad(e.criteria).kind # "list" THEN Exit1
    ELSE IF YamlLoad(e.criteria).items = << >> THEN Exit1
    ELSE [exit |-> FALSE,
          criteria |-> YamlLoad(e.criteria).items,
          check_interval_seconds |->
              IF Given(e.check_interval) THEN ParseInt(e.check_interval) ELSE 300,
          log_level |-> IF Given(e.log_level) THEN e.log_level ELSE "INFO"]

\* Environments the process may be started in.
Envs ==
    [ latitude : {Unset, "", "north", "40"},
      longitude : {Unset, "-105"},
      urls : {Unset, "[]", ",", "['', ' ']", "json://a", "[json://a, json://b]"},
      criteria : {Unset, "{", "name: close", "[]", CriteriaYaml(<<close, climber>>),
                  CriteriaYaml(<<nameless>>)},
      check_interval : {Unset, "300", "-1", "soon"},
      log_level : {Unset, "verbose"} ]

\* The environment of a running session whose criteria are cfg.
RunningEnv(cfg) ==
    [ latitude |-> "40", longitude |-> "-105", urls |-> "json://a",
      criteria |-> CriteriaYaml(cfg), check_interval |-> Unset, log_level |-> Unset ]

\* Threads of the stream library that may run the callback.
Threads == {"T1", "T2"}

NoFrame == [i |-> 0]

Count(notes, criteria_name) ==
    Cardinality({i \in 1..Len(notes) : notes[i] = criteria_name})

\* The history of notifications after a call for sonde_id that sent notes.
Notified(old, sonde_id, notes) ==
    IF notes = << >> THEN old
    ELSE [p \in DOMAIN old |->
            IF p[2] = sonde_id THEN old[p] + Count(notes, p[1]) ELSE old[p]]

on_sonde_message(message, dispatch) ==
    /\ ~crashed
    /\ \A p \in DOMAIN sent : sent[p] < MaxSent
    /\ \E r \in {Process(last_positions, alerted_sondes, criteria, message, dispatch)} :
       /\ last_positions' = r.last_positions
       /\ alerted_sondes' = r.alerted_sondes
       /\ sent' = Notified(sent, Get(message, "serial", ""), r.notes)
       /\ last' = [outcome |-> r.outcome, serial |-> Get(message, "serial", ""),
                   notes |-> r.notes]
       /\ crashed' = (r.outcome = "propagated")
    /\ UNCHANGED <<criteria, pc, frame, session>>

Init ==
    /\ criteria \in Configs
    /\ last_positions = << >>
    /\ alerted_sondes = << >>
    /\ sent = [p \in Names \X Serials |-> 0]
    /\ last = [outcome |-> "none", serial |-> "", notes |-> << >>]
    /\ crashed = FALSE
    /\ pc = [t \in Threads |-> "idle"]
    /\ frame = [t \in Threads |-> NoFrame]
    /\ env = RunningEnv(criteria)
    /\ main = "idle"
    /\ stream = "open"
    /\ exit_status = 0
    /\ interrupted = FALSE
    /\ slept = FALSE

Next ==
    \E message \in Messages, dispatch \in Dispatch(criteria) :
        on_sonde_message(message, dispatch)

Spec == Init /\ [][Next]_vars

(***************************************************************************)
(* The callback run by several threads of the stream library.  The source  *)
(* takes no lock, so an invocation is a sequence of steps, each atomic,    *)
(* that other invocations may interleave with: the reads up to the climb   *)
(* rate, the store into last_positions, the test of one criterion against  *)
(* the ledger, send_alert, and the insertion into the ledger.              *)
(***************************************************************************)

\* Reports delivered in the threaded runs.
ThreadMessages ==
    { [serial |-> "S1", lat |-> 40, lon |-> -105, alt |-> 3300, time |-> 1000],
      [serial |-> "S1", lat |-> 40, lon |-> -105, alt |-> NotANumber, time |-> 1010],
      [serial |-> "S2", lat |-> 40, lon |-> -105, alt |-> 3000, time |-> 1000],
      [serial |-> "S1"] }

Return(t, outcome, serial, notes) ==
    /\ pc' = [pc EXCEPT ![t] = "idle"]
    /\ frame' = [frame EXCEPT ![t] = NoFrame]
    /\ last' = [outcome |-> IF outcome = "" THEN "completed"
                            ELSE IF outcome = "returned" THEN "returned"
                            ELSE IF Catches(outcome) THEN "caught" ELSE "propagated",
                serial |-> serial, notes |-> notes]
    /\ crashed' = (outcome \notin {"", "returned"} /\ ~Catches(outcome))

\* Validation, parsing and the climb rate block: reads only.
T_Enrich(t, message, dispatch) ==
    /\ pc[t] = "idle"
    /\ ~crashed
    /\ \A p \in DOMAIN sent : sent[p] < MaxSent
    /\ IF ~IsDict(message) \/ "serial" \notin DOMAIN message
          \/ "lat" \notin DOMAIN message \/ "lon" \notin DOMAIN message
       THEN Return(t, "returned", Get(message, "serial", ""), << >>)
       ELSE IF FloatRaises(message.lat) \/ FloatRaises(message.lon)
               \/ FloatRaises(Get(message, "alt", 0))
       THEN Return(t, "ValueError", message.serial, << >>)
       ELSE IF ClimbRate(last_positions, message).error # ""
       THEN Return(t, ClimbRate(last_positions, message).error, message.serial, << >>)
       ELSE /\ pc' = [pc EXCEPT ![t] = "store"]
            /\ frame' = [frame EXCEPT ![t] =
                  [i |-> 1, message |-> message, dispatch |-> dispatch, notes |-> << >>,
                   ctx |-> Measurements(message, ClimbRate(last_positions, message).rate)]]
            /\ UNCHANGED <<last, crashed>>
    /\ UNCHANGED <<criteria, last_positions, alerted_sondes, sent, session>>

\* self.last_positions[sonde_id] = message
T_Record(t) ==
    /\ pc[t] = "store"
    /\ last_positions' = Record(last_positions, frame[t].ctx.sonde_id, frame[t].message)
    /\ pc' = [pc EXCEPT ![t] = "loop"]
    /\ UNCHANGED <<criteria, alerted_sondes, sent, last, crashed, frame, session>>

\* One turn of the loop up to the ledger test.
T_Check(t) ==
    /\ pc[t] = "loop"
    /\ IF frame[t].i > Len(criteria)
       THEN /\ Return(t, "", frame[t].ctx.sonde_id, frame[t].notes)
            /\ UNCHANGED alerted_sondes
       ELSE IF ~Enabled(criteria[frame[t].i])
       THEN /\ frame' = [frame EXCEPT ![t].i = @ + 1]
            /\ UNCHANGED <<alerted_sondes, pc, last, crashed>>
       ELSE IF "name" \notin DOMAIN criteria[frame[t].i]
       THEN /\ Return(t, "KeyError", frame[t].ctx.sonde_id, frame[t].notes)
            /\ UNCHANGED alerted_sondes
       ELSE IF ~sonde_meets_criteria(criteria[frame[t].i], frame[t].ctx.distance_miles,
                                     frame[t].ctx.altitude_feet, frame[t].ctx.climb_rate)
       THEN /\ frame' = [frame EXCEPT ![t].i = @ + 1]
            /\ UNCHANGED <<alerted_sondes, pc, last, crashed>>
       ELSE /\ alerted_sondes' = AlertedRead(alerted_sondes, criteria[frame[t].i].name)
            /\ IF NotYetAlerted(alerted_sondes, criteria[frame[t].i].name,
                                frame[t].ctx.sonde_id)
               THEN pc' = [pc EXCEPT ![t] = "send"] /\ UNCHANGED frame
               ELSE frame' = [frame EXCEPT ![t].i = @ + 1] /\ UNCHANGED pc
            /\ UNCHANGED <<last, crashed>>
    /\ UNCHANGED <<criteria, last_positions, sent, session>>

\* self.send_alert(...)
T_Send(t) ==
    /\ pc[t] = "send"
    /\ IF send_alert(criteria[frame[t].i].name, frame[t].dispatch) # ""
       THEN /\ Return(t, "Exception", frame[t].ctx.sonde_id, frame[t].notes)
            /\ UNCHANGED sent
       ELSE /\ sent' = Notified(sent, frame[t].ctx.sonde_id, <<criteria[frame[t].i].name>>)
            /\ frame' = [frame EXCEPT ![t].notes = Append(@, criteria[frame[t].i].name)]
            /\ pc' = [pc EXCEPT ![t] = "mark"]
            /\ UNCHANGED <<last, crashed>>
    /\ UNCHANGED <<criteria, last_positions, alerted_sondes, session>>

\* self.alerted_sondes[criteria_name].add(sonde_id)
T_Mark(t) ==
    /\ pc[t] = "mark"
    /\ alerted_sondes' = MarkSent(alerted_sondes, criteria[frame[t].i].name,
                                  frame[t].ctx.sonde_id)
    /\ frame' = [frame EXCEPT ![t].i = @ + 1]
    /\ pc' = [pc EXCEPT ![t] = "loop"]
    /\ UNCHANGED <<criteria, last_positions, sent, last, crashed, session>>

InitThreads == Init /\ criteria = <<close, climber>>

NextThreads ==
    \E t \in Threads :
        \/ \E message \in ThreadMessages, dispatch \in Dispatch(criteria) :
              T_Enrich(t, message, dispatch)
        \/ T_Record(t)
        \/ T_Check(t)
        \/ T_Send(t)
        \/ T_Mark(t)

SpecThreads == InitThreads /\ [][NextThreads]_vars

(***************************************************************************)
(* The process from its start to its exit: SondeAlert() and app.start() on *)
(* the main thread, the callback on the stream's thread while the stream   *)
(* is open.  main is "boot" before the constructor, "constructed" after    *)
(* it, "idle" inside the try block of start, "handler" inside its except   *)
(* block, "returned" after start, "exited" when the process is gone.       *)
(***************************************************************************)

\* Reports delivered while the session runs.
SessionMessages ==
    { [serial |-> "S1", lat |-> 40, lon |-> -105, alt |-> 3300, time |-> 1000],
      [serial |-> "S1", lat |-> 40, lon |-> -105, alt |-> 3000] }

\* The process ends: an uncaught exception gives status 1, sys.exit(n) gives n,
\* an uncaught KeyboardInterrupt gives 130.
Die(status) ==
    /\ main' = "exited"
    /\ exit_status' = status

callback == <<last_positions, alerted_sondes, sent, last, crashed, pc, frame>>

\* SondeAlert(): load_config, setup_logging, the fields of the object.
Construct ==
    /\ main = "boot"
    /\ \E config \in {load_config(env)} :
          IF config.exit
          THEN Die(1) /\ UNCHANGED criteria
          ELSE IF config.log_level \notin LogLevels
          THEN Die(1) /\ UNCHANGED criteria
          ELSE /\ main' = "constructed"
               /\ criteria' = config.criteria
               /\ UNCHANGED exit_status
    /\ UNCHANGED <<callback, env, stream, interrupted, slept>>

\* start() up to the try block: the log of the enabled criteria reads
\* criteria['name'], then the stream is opened.
Start ==
    /\ main = "constructed"
    /\ IF \E i \in DOMAIN criteria : Enabled(criteria[i]) /\ "name" \notin DOMAIN criteria[i]
       THEN Die(1) /\ UNCHANGED stream
       ELSE /\ stream' = "open"
            /\ main' = "idle"
            /\ UNCHANGED exit_status
    /\ UNCHANGED <<criteria, callback, env, interrupted, slept>>

\* One turn of `while True: time.sleep(check_interval_seconds)`; time.sleep
\* raises ValueError for a negative length, which start does not catch.
Sleep ==
    /\ main = "idle"
    /\ IF load_config(env).check_interval_seconds < 0
       THEN Die(1) /\ UNCHANGED slept
       ELSE slept' = TRUE /\ UNCHANGED <<main, exit_status>>
    /\ UNCHANGED <<criteria, callback, env, stream, interrupted>>

\* A KeyboardInterrupt reaches the main thread.  Only the try block of
\* start catches it.
Interrupt ==
    /\ main \in {"boot", "constructed", "idle", "handler"}
    /\ interrupted' = TRUE
    /\ IF main = "idle"
       THEN main' = "handler" /\ UNCHANGED exit_status
       ELSE Die(130)
    /\ UNCHANGED <<criteria, callback, env, stream, slept>>

\* if self.stream: self.stream.close()
Close ==
    /\ main = "handler"
    /\ stream' = IF stream = "open" THEN "closed" ELSE stream
    /\ main' = "returned"
    /\ UNCHANGED <<criteria, callback, env, exit_status, interrupted, slept>>

\* start() has returned and the script ends.
Exit ==
    /\ main = "returned"
    /\ Die(0)
    /\ UNCHANGED <<criteria, callback, env, stream, interrupted, slept>>

\* The stream delivers a report to the callback.
Deliver(message, dispatch) ==
    /\ stream = "open"
    /\ main # "exited"
    /\ on_sonde_message(message, dispatch)

InitSession ==
    /\ env \in Envs
    /\ criteria = << >>
    /\ last_positions = << >>
    /\ alerted_sondes = << >>
    /\ sent = [p \in Names \X Serials |-> 0]
    /\ last = [outcome |-> "none", serial |-> "", notes |-> << >>]
    /\ crashed = FALSE
    /\ pc = [t \in Threads |-> "idle"]
    /\ frame = [t \in Threads |-> NoFrame]
    /\ main = "boot"
    /\ stream = "none"
    /\ exit_status = 0
    /\ interrupted = FALSE
    /\ slept = FALSE

NextSession ==
    \/ Construct
    \/ Start
    \/ Sleep
    \/ Interrupt
    \/ Close
    \/ Exit
    \/ \E message \in SessionMessages, dispatch \in Dispatch(criteria) :
          Deliver(message, dispatch)

SpecSession == InitSession /\ [][NextSession]_vars

(***************************************************************************)
(* Properties                                                              *)
(***************************************************************************)

Pairs == Names \X Serials

\* Process from the current state.
Run(message, dispatch) ==
    Process(last_positions, alerted_sondes, criteria, message, dispatch)

\* C1: whatever reports are delivered one at a time, at most one
\* notification is ever sent for a (criterion name, serial) pair.
C1_AtMostOnePerPair == \A p \in Pairs : sent[p] <= 1

\* A report of S1 that matches `close` was processed again after (close, S1)
\* had been notified, and sent nothing.
C1_Replayed ==
    /\ criteria = <<close, climber>>
    /\ sent[<<"close", "S1">>] = 1
    /\ last.outcome = "completed" /\ last.serial = "S1" /\ last.notes = << >>
    /\ last_positions["S1"].lat = 40

\* C4: a report that is not a mapping, or lacks serial, lat or lon, leaves
\* last_positions and alerted_sondes unchanged and sends no notification.
C4_InvalidReportIsNoOp ==
    \A message \in Incomplete \cup {NonMapping} : \A dispatch \in Dispatch(criteria) :
        /\ Run(message, dispatch).last_positions = last_positions
        /\ Run(message, dispatch).alerted_sondes = alerted_sondes
        /\ Run(message, dispatch).notes = << >>

\* An invalid report was discarded while a track and a ledger entry existed.
C4_Discarded ==
    /\ last.outcome = "returned"
    /\ DOMAIN last_positions # {}
    /\ \E p \in Pairs : sent[p] = 1

\* C7: no error raised while a report is processed leaves on_sonde_message;
\* the callback returns and the next report is accepted.
C7_NothingPropagates ==
    /\ ~crashed
    /\ \A message \in Messages : \A dispatch \in Dispatch(criteria) :
          Run(message, dispatch).outcome # "propagated"

\* An error was raised and caught, and the callback can run again.
C7_Caught ==
    /\ last.outcome = "caught"
    /\ ENABLED Next

Sent(notes) == {notes[i] : i \in DOMAIN notes}

AllNamed(cfg) == \A i \in DOMAIN cfg : "name" \in DOMAIN cfg[i]

\* The climb rate the callback derives for a report, None when the
\* derivation fails.
DerivedRate(message) == ClimbRate(last_positions, message).rate

\* C3 (as claimed): an enabled criterion that matches a valid report of a
\* serial it has not been notified for is notified, and marked, while that
\* report is processed.  Stated for the favourable case only: every criterion
\* has a name and every apprise.notify call returns.
C3_MatchIsNotifiedAtOnce ==
    AllNamed(criteria) =>
        \A message \in WellFormed : \A i \in DOMAIN criteria :
            ( /\ Enabled(criteria[i])
              /\ sonde_meets_criteria(criteria[i],
                    Measurements(message, DerivedRate(message)).distance_miles,
                    Measurements(message, DerivedRate(message)).altitude_feet,
                    DerivedRate(message))
              /\ sent[<<criteria[i].name, message.serial>>] = 0 )
            => /\ criteria[i].name \in Sent(Run(message, "").notes)
               /\ criteria[i].name \in DOMAIN Run(message, "").alerted_sondes
               /\ message.serial \in Run(message, "").alerted_sondes[criteria[i].name]

\* C5 (as claimed): after the callback returns for a report with serial,
\* lat and lon, last_positions holds exactly that report for the serial.
\* Stated for the reports whose fields are all numeric.
C5_LatestReportIsStored ==
    \A message \in WellFormed : \A dispatch \in Dispatch(criteria) :
        /\ message.serial \in DOMAIN Run(message, dispatch).last_positions
        /\ Run(message, dispatch).last_positions[message.serial] = message

SameEffect(a, b) ==
    /\ a.last_positions = b.last_positions
    /\ a.alerted_sondes = b.alerted_sondes
    /\ a.notes = b.notes

\* Process on the state a previous invocation left.
Then(before, message, dispatch) ==
    Process(before.last_positions, before.alerted_sondes, criteria, message, dispatch)

\* C6 (as claimed): a report with an unparsable lat, lon, alt or time is the
\* only report discarded; a later well-formed report is handled exactly as if
\* the bad report had never been delivered.
C6_BadReportAffectsOnlyItself ==
    \A bad \in Malformed : \A message \in WellFormed :
        SameEffect(Then(Run(bad, ""), message, ""), Run(message, ""))

\* The orders in which a configuration can be written.
Orderings(cfg) ==
    { [i \in DOMAIN cfg |-> cfg[f[i]]] :
        f \in {g \in [DOMAIN cfg -> DOMAIN cfg] : \A i, j \in DOMAIN cfg : g[i] = g[j] => i = j} }

\* C9 (as claimed): the order of the criteria list has no effect on what is
\* stored, marked and notified for a report.
C9_OrderIsIrrelevant ==
    \A message \in WellFormed : \A dispatch \in Dispatch(criteria) :
        \A cfg \in Orderings(criteria) :
            LET a == Run(message, dispatch)
                b == Process(last_positions, alerted_sondes, cfg, message, dispatch)
            IN  /\ a.last_positions = b.last_positions
                /\ a.alerted_sondes = b.alerted_sondes
                /\ Sent(a.notes) = Sent(b.notes)

\* The configuration with `enabled: true` written out where it is absent.
EnabledWritten(cfg) ==
    [i \in DOMAIN cfg |->
        IF "enabled" \in DOMAIN cfg[i] THEN cfg[i] ELSE cfg[i] @@ [enabled |-> TRUE]]

\* C10: a criterion with `enabled: false` is never notified and never gets
\* a ledger entry; a criterion without `enabled` behaves as an enabled one.
C10_DisabledNeverAlerts ==
    /\ \A i \in DOMAIN criteria :
          ("name" \in DOMAIN criteria[i] /\ ~Get(criteria[i], "enabled", TRUE))
          => /\ criteria[i].name \notin DOMAIN alerted_sondes
             /\ \A s \in Serials : sent[<<criteria[i].name, s>>] = 0
    /\ \A message \in WellFormed : \A dispatch \in Dispatch(criteria) :
          SameEffect(Run(message, dispatch),
                     Process(last_positions, alerted_sondes, EnabledWritten(criteria),
                             message, dispatch))

\* With `off` disabled and unbounded, a report was processed to the end and
\* notified `high`, which has no `enabled` key.
C10_DisabledSkipped ==
    /\ criteria = <<off, high>>
    /\ last.outcome = "completed" /\ last.notes = <<"high">>
    /\ "off" \notin DOMAIN alerted_sondes

\* Criteria whose only bound is a climb-rate bound.
ClimbBounds == {-300, -5, 0, 20, 30, 500}
OnlyMin(b) == [name |-> "only_min", climb_rate_min |-> b]
OnlyMax(b) == [name |-> "only_max", climb_rate_max |-> b]

Meets(c, message) ==
    sonde_meets_criteria(c, Measurements(message, DerivedRate(message)).distance_miles,
                         Measurements(message, DerivedRate(message)).altitude_feet,
                         DerivedRate(message))

\* C8: a criterion bounded only by climb_rate_min (or climb_rate_max)
\* matches every report whose climb rate is absent, whatever the bound, and
\* rejects a report whose climb rate is present and below the minimum (or
\* above the maximum).
C8_ClimbBoundsNeedAClimbRate ==
    \A message \in WellFormed : \A b \in ClimbBounds :
        IF DerivedRate(message).known
        THEN /\ DerivedRate(message).num < b * DerivedRate(message).den
                => ~Meets(OnlyMin(b), message)
             /\ DerivedRate(message).num > b * DerivedRate(message).den
                => ~Meets(OnlyMax(b), message)
        ELSE Meets(OnlyMin(b), message) /\ Meets(OnlyMax(b), message)

\* `climber` (climb_rate_min 20 only) was notified for a report of S1 that
\* carries no time, so its climb rate was absent; and a later report of S2
\* would have a known climb rate below the bound.
C8_MatchedWithoutClimbRate ==
    /\ criteria = <<close, climber>>
    /\ last.serial = "S1" /\ "climber" \in Sent(last.notes)
    /\ "time" \notin DOMAIN last_positions["S1"]
    /\ \E message \in WellFormed :
          /\ DerivedRate(message).known
          /\ DerivedRate(message).num < 20 * DerivedRate(message).den

\* C2 (as claimed): when the callback is invoked from several threads, the
\* read-modify-write of the ledger runs under mutual exclusion, so two
\* overlapping invocations for one serial never both send a notification for
\* the same (criterion, serial) pair.
C2_NoDoubleSend ==
    \A t, u \in Threads :
        (t # u /\ pc[t] # "idle" /\ pc[u] # "idle"
         /\ frame[t].ctx.sonde_id = frame[u].ctx.sonde_id)
        => Sent(frame[t].notes) \cap Sent(frame[u].notes) = {}

(***************************************************************************)
(* The session: start-up and shutdown (SpecSession)                        *)
(***************************************************************************)

\* A required value that is absent or no number.
NoNumber(v) == ~Given(v) \/ FloatRaises(ParseFloat(v))

\* The required configuration is missing or malformed: observer latitude
\* or longitude absent or not a number, no notification URL, criteria
\* absent, not a list or empty.
BadConfig(e) ==
    \/ NoNumber(e.latitude)
    \/ NoNumber(e.longitude)
    \/ ~Given(e.urls)
    \/ AppriseUrls(e.urls) = << >>
    \/ ~Given(e.criteria)
    \/ YamlLoad(e.criteria).kind # "list"
    \/ YamlLoad(e.criteria).items = << >>

\* C11: with a missing or malformed required configuration the process
\* never gets past start-up: the stream is never opened, no report is
\* processed, and once it has ended its exit status is not zero.
C11_BadConfigNeverStarts ==
    BadConfig(env) =>
        /\ stream = "none"
        /\ last.outcome = "none"
        /\ main \in {"boot", "exited"}
        /\ main = "exited" => exit_status # 0

\* A start-up refused by load_config: sys.exit(1) before any interrupt.
C11_Refused ==
    /\ BadConfig(env)
    /\ main = "exited"
    /\ exit_status = 1
    /\ ~interrupted

\* C12: a session that was started ends only by an interrupt, with the
\* stream closed and exit status zero, and the stream is never closed
\* without an interrupt.
C12_EndsOnlyByInterrupt ==
    /\ stream = "closed" => interrupted
    /\ (main = "exited" /\ stream # "none") =>
          /\ interrupted
          /\ stream = "closed"
          /\ exit_status = 0

(***************************************************************************)
(* Dispatch failures                                                       *)
(***************************************************************************)

\* The criteria for which an invocation called send_alert: those whose call
\* returned, and the one whose call raised.
Attempts(r, dispatch) ==
    Sent(r.notes) \cup (IF r.error = "Exception" THEN {dispatch} ELSE {})

\* C13 (as claimed): after a dispatch attempt for (criterion, serial) has
\* failed, no later report of that serial causes another attempt for the
\* pair, and the failure does not keep the other criteria from being
\* evaluated for the same report: they are notified as they are when no
\* dispatch fails.
C13_FailedDispatchIsFinal ==
    \A message \in WellFormed : \A failing \in NamesOf(criteria) :
        \A r \in {Run(message, failing)} :
            r.error = "Exception" =>
                /\ \A later \in {m \in WellFormed : m.serial = message.serial} :
                       \A dispatch \in Dispatch(criteria) :
                           failing \notin Attempts(Then(r, later, dispatch), dispatch)
                /\ Sent(r.notes) = Sent(Run(message, "").notes) \ {failing}

(***************************************************************************)
(* The climb rate                                                          *)
(***************************************************************************)

\* Reports that carry a serial, lat and lon.
Reports == {m \in Messages : IsDict(m) /\ {"serial", "lat", "lon"} \subseteq DOMAIN m}

\* The Track State with nothing but the entry of sonde_id, if it has one.
Only(lp, sonde_id) == [s \in DOMAIN lp \cap {sonde_id} |-> lp[s]]

\* C14: the climb rate of a report is derived from the Track State as it
\* is before the report is recorded: from the stored report of the same
\* serial and the report itself, never from the report alone and never from
\* another serial's entry; a serial's first report has no climb rate; and a
\* report that gets past the derivation is then the stored one.
C14_DerivedBeforeRecorded ==
    \A message \in Reports : \A r \in {Run(message, "")} :
        /\ ClimbRate(last_positions, message)
             = ClimbRate(Only(last_positions, message.serial), message)
        /\ "climb_rate" \in DOMAIN r =>
              /\ r.climb_rate = ClimbRate(Only(last_positions, message.serial), message).rate
              /\ message.serial \notin DOMAIN last_positions => r.climb_rate = None
              /\ r.last_positions[message.serial] = message

\* S1 and S2 are both tracked, the latest report was one of S1 and was
\* recorded, and a further report of S1 gets a climb rate from it that the
\* entry of S2 would not give.
C14_SecondReport ==
    /\ {"S1", "S2"} \subseteq DOMAIN last_positions
    /\ last.outcome = "completed"
    /\ last.serial = "S1"
    /\ \E message \in WellFormed : \E r \in {Run(message, "")} :
          /\ message.serial = "S1"
          /\ "climb_rate" \in DOMAIN r
          /\ r.climb_rate # None
          /\ r.climb_rate # ClimbRate(("S1" :> last_positions["S2"]), message).rate

\* The climb rate of current report C after previous report P as claimed:
\* present when C has a time, P has an altitude and a time and dt > 0.
ClaimedRate(P, C) ==
    IF "time" \in DOMAIN C /\ "alt" \in DOMAIN P /\ "time" \in DOMAIN P
    THEN IF C.time - P.time > 0
         THEN Rate(Get(C, "alt", 0) - P.alt, C.time - P.time)
         ELSE None
    ELSE None

\* Every field of the report that is read as a number is one.
Numeric(m) ==
    \A k \in DOMAIN m \cap {"lat", "lon", "alt", "time"} : ~FloatRaises(m[k])

\* C15 (as claimed): for a stored report P and a current report C of the
\* same serial, both with numeric fields, the climb rate is present exactly
\* when C has a time, P has an altitude and a time and dt = C.time - P.time
\* is positive, and is then (C.alt - P.alt) / dt; otherwise it is absent,
\* and the derivation never fails.
C15_ClimbRateAsClaimed ==
    \A C \in WellFormed :
        (C.serial \in DOMAIN last_positions /\ Numeric(last_positions[C.serial])) =>
            ClimbRate(last_positions, C)
                = [error |-> "", rate |-> ClaimedRate(last_positions[C.serial], C)]

(***************************************************************************)
(* The matcher on its own (SpecMatcher): one criterion, named `close`,     *)
(* with any subset of the five bounds, and reports around the bounds:      *)
(* 3000 m is below 10000 ft, 3100 m and 3300 m are between the altitude    *)
(* bounds, 6100 m is above 20000 ft, and 3100 m at 1000 s followed by      *)
(* 3300 m at 1010 s is a climb rate of exactly 20 m/s.                     *)
(***************************************************************************)
ProbeMessages ==
    { [serial |-> "S1", lat |-> 40, lon |-> -105, alt |-> 3000, time |-> 1000],
      [serial |-> "S1", lat |-> 40, lon |-> -105, alt |-> 3100, time |-> 1000],
      [serial |-> "S1", lat |-> 41, lon |-> -105, alt |-> 3100, time |-> 1000],
      [serial |-> "S1", lat |-> 40, lon |-> -105, alt |-> 3300, time |-> 1010],
      [serial |-> "S1", lat |-> 40, lon |-> -105, alt |-> 6100, time |-> 1010],
      [serial |-> "S1", lat |-> 41, lon |-> -105, alt |-> 3300, time |-> 1010] }

\* Measurements on, just below and just above the bounds of AllBounds.
ProbeDistances == {0, 49999999, 50000000, 50000001}
ProbeAltitudes == {999999999, 1000000000, 1500000000, 2000000000, 2000000001}
ProbeRates == {None, Rate(199, 10), Rate(200, 10), Rate(201, 10), Rate(-200, 10)}

InitMatcher ==
    /\ criteria \in {<<c>> : c \in TestCriteria}
    /\ last_positions = << >>
    /\ alerted_sondes = << >>
    /\ sent = [p \in Names \X Serials |-> 0]
    /\ last = [outcome |-> "none", serial |-> "", notes |-> << >>]
    /\ crashed = FALSE
    /\ pc = [t \in Threads |-> "idle"]
    /\ frame = [t \in Threads |-> NoFrame]
    /\ env = RunningEnv(criteria)
    /\ main = "idle"
    /\ stream = "open"
    /\ exit_status = 0
    /\ interrupted = FALSE
    /\ slept = FALSE

NextMatcher ==
    \E message \in ProbeMessages : on_sonde_message(message, "")

SpecMatcher == InitMatcher /\ [][NextMatcher]_vars

\* Every bound the criterion has is satisfied, bounds included; a climb
\* rate bound is satisfied by an absent climb rate.
AllBoundsHold(c, distance_miles, altitude_feet, climb_rate) ==
    /\ "distance_miles" \in DOMAIN c => distance_miles <= c.distance_miles * 1000000
    /\ "altitude_feet_min" \in DOMAIN c => altitude_feet >= c.altitude_feet_min * 100000
    /\ "altitude_feet_max" \in DOMAIN c => altitude_feet <= c.altitude_feet_max * 100000
    /\ ("climb_rate_min" \in DOMAIN c /\ climb_rate.known)
          => climb_rate.num >= c.climb_rate_min * climb_rate.den
    /\ ("climb_rate_max" \in DOMAIN c /\ climb_rate.known)
          => climb_rate.num <= c.climb_rate_max * climb_rate.den

\* C16: a criterion matches exactly when every bound it has is satisfied,
\* the bounds themselves included; a distance above the distance bound turns
\* a match into a no-match; a criterion without bounds matches everything.
\* Checked on the probe measurements and on the measurements the callback
\* derives for each probe report in the current state.
C16_MatchesIffAllBoundsHold ==
    /\ \A d \in ProbeDistances : \A a \in ProbeAltitudes : \A r \in ProbeRates :
          /\ sonde_meets_criteria(criteria[1], d, a, r) = AllBoundsHold(criteria[1], d, a, r)
          /\ sonde_meets_criteria(Bounded({}), d, a, r)
          /\ ("distance_miles" \in DOMAIN criteria[1] /\ d > 50000000)
                => ~sonde_meets_criteria(criteria[1], d, a, r)
    /\ \A message \in ProbeMessages :
          \A ctx \in {Measurements(message, DerivedRate(message))} :
             Meets(criteria[1], message)
                = AllBoundsHold(criteria[1], ctx.distance_miles, ctx.altitude_feet,
                                ctx.climb_rate)

\* The criterion with all five bounds has just rejected a report that is
\* within every bound but the distance (one degree north of the observer),
\* and the next report, overhead at 3300 m, sits exactly on both climb rate
\* bounds and matches.
C16_OnTheBounds ==
    /\ criteria = <<Bounded(DOMAIN AllBounds)>>
    /\ last.outcome = "completed"
    /\ last.notes = << >>
    /\ last_positions["S1"] = [serial |-> "S1", lat |-> 41, lon |-> -105, alt |-> 3100,
                               time |-> 1000]
    /\ \E message \in ProbeMessages :
          /\ DerivedRate(message) = Rate(200, 10)
          /\ Meets(criteria[1], message)

(***************************************************************************)
(* The ledger                                                              *)
(***************************************************************************)

InLedger(led, criteria_name, sonde_id) ==
    criteria_name \in DOMAIN led /\ sonde_id \in led[criteria_name]

\* C17: after every completed call of the callback, a (criterion name,
\* serial) pair is in the ledger if and only if apprise.notify was called
\* for the pair and returned; the ledger holds no other name or serial.
C17_LedgerIsWhatWasSent ==
    /\ \A p \in Pairs : InLedger(alerted_sondes, p[1], p[2]) <=> sent[p] >= 1
    /\ \A criteria_name \in DOMAIN alerted_sondes :
          criteria_name \in Names /\ alerted_sondes[criteria_name] \subseteq Serials

\* (close, S2) was notified and is marked; the latest call, for S1, ended in
\* the except block after the report was stored, and (close, S1) is neither
\* notified nor marked.
C17_MarkedAndUnmarked ==
    /\ sent[<<"close", "S2">>] = 1
    /\ InLedger(alerted_sondes, "close", "S2")
    /\ last.outcome = "caught"
    /\ last.serial = "S1"
    /\ "S1" \in DOMAIN last_positions
    /\ sent[<<"close", "S1">>] = 0
    /\ ~InLedger(alerted_sondes, "close", "S1")

\* An enabled criterion whose only bounds are climb rate bounds.
ClimbOnly(c) ==
    /\ Enabled(c)
    /\ "name" \in DOMAIN c
    /\ DOMAIN c \subseteq {"name", "enabled", "climb_rate_min", "climb_rate_max"}
    /\ DOMAIN c \cap {"climb_rate_min", "climb_rate_max"} # {}

\* C18 (as claimed): a criterion bounded by the climb rate alone is notified
\* for a serial on the serial's first valid report, whose climb rate is
\* absent, and so is never notified for a report whose climb rate was
\* measured.
C18_ClimbOnlyFiresOnFirstReport ==
    \A i \in DOMAIN criteria : ClimbOnly(criteria[i]) =>
        \A message \in WellFormed : \A dispatch \in Dispatch(criteria) :
            \A r \in {Run(message, dispatch)} :
                /\ message.serial \notin DOMAIN last_positions
                      => criteria[i].name \in Sent(r.notes)
                /\ criteria[i].name \in Sent(r.notes) => ~DerivedRate(message).known

(***************************************************************************)
(* Serials are independent                                                 *)
(***************************************************************************)

\* The ledger with nothing but the marks of sonde_id.
LedgerOnly(led, sonde_id) == [n \in DOMAIN led |-> led[n] \cap {sonde_id}]

\* C19: processing a report of serial s leaves the Track State entry of
\* every other serial and the ledger membership of every pair of another
\* serial as they were, removes no Track State entry and no ledger pair, and
\* sends the notifications, and ends, exactly as it does when the Track
\* State and the ledger hold nothing about the other serials.
C19_SerialsAreIndependent ==
    \A message \in Reports : \A dispatch \in Dispatch(criteria) :
        \A r \in {Run(message, dispatch)} :
            /\ DOMAIN last_positions \subseteq DOMAIN r.last_positions
            /\ DOMAIN r.last_positions \subseteq DOMAIN last_positions \cup {message.serial}
            /\ \A s \in DOMAIN last_positions \ {message.serial} :
                  r.last_positions[s] = last_positions[s]
            /\ \A p \in Pairs :
                  /\ InLedger(alerted_sondes, p[1], p[2]) => InLedger(r.alerted_sondes, p[1], p[2])
                  /\ (p[2] # message.serial /\ InLedger(r.alerted_sondes, p[1], p[2]))
                        => InLedger(alerted_sondes, p[1], p[2])
            /\ \A alone \in {Process(Only(last_positions, message.serial),
                                     LedgerOnly(alerted_sondes, message.serial),
                                     criteria, message, dispatch)} :
                  r.notes = alone.notes /\ r.error = alone.error

\* S2 is tracked and notified for `close`; the latest report was one of S1,
\* was recorded and sent a notification.
C19_BothTracked ==
    /\ "S2" \in DOMAIN last_positions
    /\ InLedger(alerted_sondes, "close", "S2")
    /\ last.serial = "S1"
    /\ last.outcome = "completed"
    /\ last.notes # << >>
    /\ "S1" \in DOMAIN last_positions

====
